---- MODULE Spec2Model ----
(***************************************************************************)
(* hithlain: a test of a Program is instantiated (elaborated), linked and  *)
(* simulated step by step by Simulator (src/hithlain/src/sim/mod.rs), over *)
(* the value algebra of src/hithlain/src/sim/value.rs and the syntax tree  *)
(* of src/hithlain/src/parse/ast.rs.  The elaborator, the linker and the   *)
(* engine (sim/instantiate.rs, sim/link.rs, sim/simulation.rs) are called  *)
(* by mod.rs but are not among the source files; they are modelled from    *)
(* the specification, within the signatures their call sites fix.          *)
(*                                                                         *)
(* Spec is one call of run_test or run_all_tests on a Simulator; SpecAgain *)
(* lets the call be made a second time; SpecPure applies the functions of  *)
(* the library (Variable's equality and hash, the value algebra, the       *)
(* linker's schedule) to inputs drawn from bounded sets.                   *)
(***************************************************************************)
EXTENDS Integers, Sequences, FiniteSets, TLC

(***************************************************************************)
(* Bounds of the model.                                                    *)
(***************************************************************************)
\* longest Program.tests drawn from the small catalogue
MaxTests == 2

(***************************************************************************)
(* parse/ast.rs: the syntax tree.                                          *)
(***************************************************************************)
\* Variable(String, Option<Span>): a name and an optional source span
Variable(n, s) == [name |-> n, span |-> s]

\* faulty variant: the span takes part in the comparison
VariableEqWithSpan(v, w) == v = w

\* derived PartialEq of Variable: field 1 is "ignore"d, only the name counts
VariableEq(v, w) == v.name = w.name

\* derived Hash of Variable: field 1 is "ignore"d; what is fed to the hasher
VariableHash(v) == <<v.name>>

\* Constant::Bit(bool)
ConstBit(b) == [c |-> "Bit", b |-> b]

\* Constant::Number(u64)
ConstNumber(n) == [c |-> "Number", n |-> n]

\* Expr::Atom(Atom::Variable(v)); the span is the place of the reference
AtomVar(n) == [k |-> "var", v |-> Variable(n, 0)]

\* Expr::Atom(Atom::Constant(c))
AtomConst(c) == [k |-> "const", c |-> c]

\* Expr::BinaryOp { a, b, action }
BinaryOp(action, a, b) == [k |-> "bin", action |-> action, a |-> a, b |-> b]

\* Expr::NaryOp { params, action }: action "Not" or the name of a custom gate
NaryOp(action, params) == [k |-> "nary", action |-> action, params |-> params]

\* Statement::Assignment(Assignment { into, expr })
Assignment(into, expr) == [k |-> "assign", into |-> into, expr |-> expr]

\* Statement::Assert { expr, span }; the desugared check compares expr with
\* the literal written after ==
AssertStmt(expr, expected, span) ==
  [k |-> "assert", expr |-> expr, expected |-> expected, span |-> span]

\* StatementOrTime::Time(TimeSpec::At(t))
At(t) == [k |-> "time", spec |-> "At", t |-> t]

\* StatementOrTime::Time(TimeSpec::After(d))
After(d) == [k |-> "time", spec |-> "After", t |-> d]

\* Circuit { name, inputs, outputs, body }
Circuit(name, inputs, outputs, body) ==
  [name |-> name, inputs |-> inputs, outputs |-> outputs, body |-> body]

\* Test { name, body }
Test(name, body) == [name |-> Variable(name, 0), body |-> body]

(***************************************************************************)
(* sim/value.rs: the value algebra.  A Result is Ok(value) or Err(error).  *)
(***************************************************************************)
Bit(b) == [kind |-> "Bit", b |-> b]

Ok(v) == [ok |-> TRUE, v |-> v]

Err(e) == [ok |-> FALSE, err |-> e]

\* todo!() in From<Constant>: the conversion panics
Todo == [kind |-> "todo!"]

\* faulty variant: a bit literal converts to the opposite bit
ValueFromInverted(c) == IF c.c = "Bit" THEN Bit(~c.b) ELSE Todo

\* impl From<Constant> for Value
ValueFrom(c) == IF c.c = "Bit" THEN Bit(c.b) ELSE Todo

\* faulty variant: xor computed as or
BitXorAsOr(x, y) == Ok(Bit(x.b \/ y.b))

\* impl BitXor for Value
BitXor(x, y) == Ok(Bit(x.b # y.b))

\* faulty variant: and computed as or
BitAndAsOr(x, y) == Ok(Bit(x.b \/ y.b))

\* impl BitAnd for Value
BitAnd(x, y) == Ok(Bit(x.b /\ y.b))

\* faulty variant: or computed as and
BitOrAsAnd(x, y) == Ok(Bit(x.b /\ y.b))

\* impl BitOr for Value
BitOr(x, y) == Ok(Bit(x.b \/ y.b))

\* impl Not for Value
Not(x) == Ok(Bit(~x.b))

(***************************************************************************)
(* Localized signals (Variable::localize, ast.rs) and the elaborator.      *)
(***************************************************************************)
\* faulty variant: the path is dropped
localizeDropsPath(v, path) == [variable |-> v, path |-> << >>]

\* Variable::localize: LocalizedVariable { variable: self.clone(), path }
localize(v, path) == [variable |-> v, path |-> path]

\* identity of a localized signal: name and path, the span left out
Key(lv) == [name |-> lv.variable.name, path |-> lv.path]

\* one frame of an instantiation path: the invoked unit and its call site
Package(unit, site) == [unit |-> unit, site |-> site]

\* circuit something: a b c -> d e (mod.rs, test_smoke)
CircuitSomething ==
  Circuit("something", <<"a", "b", "c">>, <<"d", "e">>,
    << Assignment(<<"d">>, BinaryOp("And", AtomVar("a"), AtomVar("b"))),
       Assignment(<<"e">>, BinaryOp("Or", AtomVar("b"), AtomVar("c"))) >>)

\* circuit add: a b c_in -> o c_out (mod.rs, test_add)
CircuitAdd ==
  Circuit("add", <<"a", "b", "c_in">>, <<"o", "c_out">>,
    << Assignment(<<"o">>,
         BinaryOp("Xor", BinaryOp("Xor", AtomVar("a"), AtomVar("b")), AtomVar("c_in"))),
       Assignment(<<"c_out">>,
         BinaryOp("Or", BinaryOp("And", AtomVar("a"), AtomVar("b")),
                        BinaryOp("And", BinaryOp("Xor", AtomVar("a"), AtomVar("b")),
                                        AtomVar("c_in")))) >>)

\* circuit pair: a b -> d e { d, e = something(a, b, a); }: an invocation
\* inside a circuit, with the names of the invoked circuit
CircuitPair ==
  Circuit("pair", <<"a", "b">>, <<"d", "e">>,
    << Assignment(<<"d", "e">>,
         NaryOp("something", <<AtomVar("a"), AtomVar("b"), AtomVar("a")>>)) >>)

\* circuit loop: a -> o { o = loop(a); }: it invokes itself
CircuitLoop ==
  Circuit("loop", <<"a">>, <<"o">>,
    << Assignment(<<"o">>, NaryOp("loop", <<AtomVar("a")>>)) >>)

\* circuits ping and pong: each invokes the other
CircuitPing ==
  Circuit("ping", <<"a">>, <<"o">>,
    << Assignment(<<"o">>, NaryOp("pong", <<AtomVar("a")>>)) >>)

CircuitPong ==
  Circuit("pong", <<"a">>, <<"o">>,
    << Assignment(<<"o">>, NaryOp("ping", <<AtomVar("a")>>)) >>)

\* Program.circuits, by name
Circuits ==
  [n \in {"something", "add", "pair", "loop", "ping", "pong"} |->
     CASE n = "something" -> CircuitSomething
       [] n = "add" -> CircuitAdd
       [] n = "pair" -> CircuitPair
       [] n = "loop" -> CircuitLoop
       [] n = "ping" -> CircuitPing
       [] n = "pong" -> CircuitPong]

RECURSIVE LocExpr(_, _)
\* an expression with every signal reference localized under path
LocExpr(e, path) ==
  CASE e.k = "var" -> [k |-> "sig", s |-> localize(e.v, path)]
    [] e.k = "const" -> e
    [] e.k = "bin" ->
         BinaryOp(e.action, LocExpr(e.a, path), LocExpr(e.b, path))
    [] e.k = "nary" ->
         NaryOp(e.action, [i \in DOMAIN e.params |-> LocExpr(e.params[i], path)])

\* an elaborated assignment of one localized signal
LocAssign(lv, expr) == [k |-> "assign", into |-> lv, expr |-> expr]

\* is the statement an invocation of a user-defined circuit
IsCall(s) ==
  s.k = "assign" /\ s.expr.k = "nary" /\ s.expr.action \in DOMAIN Circuits

\* the circuits a body invokes
Callees(body) == {body[i].expr.action : i \in {j \in DOMAIN body : IsCall(body[j])}}

RECURSIVE Reach(_)
\* the circuits invoked from those of S, directly or through others
Reach(S) ==
  LET T == S \cup UNION {Callees(Circuits[c].body) : c \in S}
  IN IF T = S THEN S ELSE Reach(T)

\* the test invokes a circuit that invokes itself, directly or indirectly
InvocationCycle(test) ==
  \E c \in Reach(Callees(test.body)) : c \in Reach(Callees(Circuits[c].body))

\* the invocation is of a circuit that is being expanded already
OnPath(s, path) ==
  IsCall(s) /\ \E n \in DOMAIN path : path[n].unit = s.expr.action

RECURSIVE InstBody(_, _, _)
\* the statements body[i..] elaborated under path: an invocation is inlined
\* under a new frame (inputs bound to the arguments, the body, the outputs
\* bound back to the targets), everything else is kept with its signals
\* localized; an invocation that closes a cycle is not expanded again
InstBody(body, i, path) ==
  IF i > Len(body) THEN << >>
  ELSE LET s == body[i]
           rest == InstBody(body, i + 1, path)
       IN CASE s.k = "time" -> <<s>> \o rest
            [] s.k = "assert" ->
                 <<[s EXCEPT !.expr = LocExpr(s.expr, path)]>> \o rest
            [] OnPath(s, path) -> rest
            [] IsCall(s) ->
                 LET c == Circuits[s.expr.action]
                     p2 == Append(path, Package(c.name, i))
                 IN [j \in DOMAIN c.inputs |->
                       LocAssign(localize(Variable(c.inputs[j], 0), p2),
                                 LocExpr(s.expr.params[j], path))]
                    \o InstBody(c.body, 1, p2)
                    \o [j \in DOMAIN c.outputs |->
                          LocAssign(localize(Variable(s.into[j], 0), path),
                                    [k |-> "sig",
                                     s |-> localize(Variable(c.outputs[j], 0), p2)])]
                    \o rest
            [] OTHER ->
                 <<LocAssign(localize(Variable(s.into[1], 0), path),
                             LocExpr(s.expr, path))>> \o rest

\* instantiate_program(test): the elaborated test, path initially empty
instantiate_program(test) == [name |-> test.name, body |-> InstBody(test.body, 1, << >>)]

(***************************************************************************)
(* Evaluation of an elaborated expression over a value table.              *)
(***************************************************************************)
\* the raised panic of a todo!() reached during evaluation
Panic == [ok |-> FALSE, err |-> "panic"]

\* a binary gate on two values; nand, nor, xnor are the complements
ApplyBinary(action, x, y) ==
  LET r == CASE action \in {"And", "Nand"} -> BitAnd(x, y)
             [] action \in {"Or", "Nor"} -> BitOr(x, y)
             [] action \in {"Xor", "Xnor"} -> BitXor(x, y)
  IN IF r.ok /\ action \in {"Nand", "Nor", "Xnor"} THEN Not(r.v) ELSE r

RECURSIVE Eval(_, _)
\* the value of expression e over the table vals, or the first error
Eval(e, vals) ==
  CASE e.k = "sig" -> Ok(vals[Key(e.s)])
    [] e.k = "const" ->
         LET v == ValueFrom(e.c) IN IF v = Todo THEN Panic ELSE Ok(v)
    [] e.k = "bin" ->
         LET x == Eval(e.a, vals)
             y == Eval(e.b, vals)
         IN IF ~x.ok THEN x ELSE IF ~y.ok THEN y
            ELSE ApplyBinary(e.action, x.v, y.v)
    [] e.k = "nary" ->
         LET x == Eval(e.params[1], vals)
         IN IF ~x.ok THEN x ELSE Not(x.v)

RECURSIVE Refs(_)
\* the signals an expression reads
Refs(e) ==
  CASE e.k = "sig" -> {Key(e.s)}
    [] e.k = "const" -> {}
    [] e.k = "bin" -> Refs(e.a) \cup Refs(e.b)
    [] e.k = "nary" -> UNION {Refs(e.params[i]) : i \in DOMAIN e.params}

(***************************************************************************)
(* The linker: netlist and absolute schedule of an elaborated test.        *)
(***************************************************************************)
\* index of the first time directive of the elaborated body, or Len + 1
FirstTime(body) ==
  IF \E i \in DOMAIN body : body[i].k = "time"
  THEN CHOOSE i \in DOMAIN body :
         body[i].k = "time" /\ \A j \in 1..(i - 1) : body[j].k # "time"
  ELSE Len(body) + 1

RECURSIVE Clock(_, _)
\* the absolute clock after body[1..i]: "after d" adds to the previous
\* directive's instant (zero if first), "at t" sets it
Clock(body, i) ==
  IF i = 0 THEN 0
  ELSE LET prev == Clock(body, i - 1)
       IN IF body[i].k = "time"
          THEN IF body[i].spec = "At" THEN body[i].t ELSE prev + body[i].t
          ELSE prev

RECURSIVE SortedSeq(_)
\* a finite set of numbers as an ascending sequence
SortedSeq(S) ==
  IF S = {} THEN << >>
  ELSE LET m == CHOOSE x \in S : \A y \in S : x <= y
       IN <<m>> \o SortedSeq(S \ {m})

\* the untimed assignments: the combinational drivers, in declaration order
Drivers(body) ==
  LET idx == SortedSeq({i \in DOMAIN body :
                          i < FirstTime(body) /\ body[i].k = "assign"})
  IN [n \in DOMAIN idx |-> [into |-> Key(body[idx[n]].into), expr |-> body[idx[n]].expr]]

\* the statements of kind k scheduled at instant t, in declaration order
Scheduled(body, t, k) ==
  LET idx == SortedSeq({i \in DOMAIN body :
                          i > FirstTime(body) /\ body[i].k = k /\ Clock(body, i) = t})
  IN [n \in DOMAIN idx |->
        IF k = "assign"
        THEN [into |-> Key(body[idx[n]].into), expr |-> body[idx[n]].expr]
        ELSE body[idx[n]]]

\* faulty variant: one entry per directive, in the order written
ScheduleAsWritten(body) ==
  LET idx == SortedSeq({j \in DOMAIN body : body[j].k = "time"})
  IN [n \in DOMAIN idx |->
        [at |-> Clock(body, idx[n]),
         stimulus |-> Scheduled(body, Clock(body, idx[n]), "assign"),
         asserts |-> Scheduled(body, Clock(body, idx[n]), "assert")]]

\* the normalized schedule: one entry per resolved instant, ascending
Schedule(body) ==
  LET ts == SortedSeq({Clock(body, i) : i \in {j \in DOMAIN body : body[j].k = "time"}})
  IN [n \in DOMAIN ts |->
        [at |-> ts[n],
         stimulus |-> Scheduled(body, ts[n], "assign"),
         asserts |-> Scheduled(body, ts[n], "assert")]]

\* every signal of the elaborated test: assigned or read
Signals(body) ==
  UNION {IF body[i].k = "assign" THEN {Key(body[i].into)} \cup Refs(body[i].expr)
         ELSE IF body[i].k = "assert" THEN Refs(body[i].expr)
         ELSE {} : i \in DOMAIN body}

\* the signals some statement assigns (a driver or a stimulus)
Assigned(body) ==
  {Key(body[i].into) : i \in {j \in DOMAIN body : body[j].k = "assign"}}

\* some signal has more than one driving assignment
MultipleDrivers(body) ==
  LET d == Drivers(body)
  IN \E i, j \in DOMAIN d : i # j /\ d[i].into = d[j].into

\* some signal is read by an expression or assertion and never assigned
UndrivenRead(body) == Signals(body) \ Assigned(body) # {}

\* the drivers kept where a signal has several: the first or the last
KeepDrivers(d, keep) ==
  LET idx == SortedSeq({i \in DOMAIN d :
                          IF keep = "first"
                          THEN \A j \in 1..(i - 1) : d[j].into # d[i].into
                          ELSE \A j \in (i + 1)..Len(d) : d[j].into # d[i].into})
  IN [n \in DOMAIN idx |-> d[idx[n]]]

\* link_process(instantiated): the linked netlist.  The call site takes the
\* netlist itself, not a Result, so a netlist comes back for every input
link_process(inst, keep) ==
  [name |-> inst.name,
   signals |-> Signals(inst.body),
   drivers |-> KeepDrivers(Drivers(inst.body), keep),
   schedule |-> Schedule(inst.body)]

(***************************************************************************)
(* The tests of the Program.  A test is named by an id; TestOf gives its   *)
(* syntax tree.                                                            *)
(***************************************************************************)
Lit(b) == AtomConst(ConstBit(b))

Set(n, b) == Assignment(<<n>>, Lit(b))

\* the full adder's function, c_in = 0
AddO(a, b) == (a # b) # FALSE

AddC(a, b) == (a /\ b) \/ ((a # b) /\ FALSE)

\* expected value e, inverted when the flip names assertion n
Exp(e, flip, n) == IF flip = n THEN ~e ELSE e

\* test_add (mod.rs), with the inputs of the three instants and the choice
\* of one assertion to expect the opposite value as parameters
AddBody(ins, flip) ==
  << Assignment(<<"o", "c_out">>,
                NaryOp("add", <<AtomVar("a"), AtomVar("b"), Lit(FALSE)>>)),
     At(0), Set("a", ins[1].a), Set("b", ins[1].b),
     AssertStmt(AtomVar("o"), Exp(AddO(ins[1].a, ins[1].b), flip, 1), 5),
     AssertStmt(AtomVar("c_out"), Exp(AddC(ins[1].a, ins[1].b), flip, 2), 6),
     After(5), Set("a", ins[2].a), Set("b", ins[2].b),
     AssertStmt(AtomVar("o"), Exp(AddO(ins[2].a, ins[2].b), flip, 3), 10),
     AssertStmt(AtomVar("c_out"), Exp(AddC(ins[2].a, ins[2].b), flip, 4), 11),
     After(5), Set("a", ins[3].a), Set("b", ins[3].b),
     AssertStmt(AtomVar("o"), Exp(AddO(ins[3].a, ins[3].b), flip, 5), 15),
     AssertStmt(AtomVar("c_out"), Exp(AddC(ins[3].a, ins[3].b), flip, 6), 16) >>

\* test_smoke (mod.rs) generalized: x, y = something(a, b, c), all three
\* inputs set at instants 0 and 5, both outputs asserted at both
AndOrBody(ins, flip) ==
  << Assignment(<<"x", "y">>,
                NaryOp("something", <<AtomVar("a"), AtomVar("b"), AtomVar("c")>>)),
     At(0), Set("a", ins[1].a), Set("b", ins[1].b), Set("c", ins[1].c),
     AssertStmt(AtomVar("x"), Exp(ins[1].a /\ ins[1].b, flip, 1), 6),
     AssertStmt(AtomVar("y"), Exp(ins[1].b \/ ins[1].c, flip, 2), 7),
     After(5), Set("a", ins[2].a), Set("b", ins[2].b), Set("c", ins[2].c),
     AssertStmt(AtomVar("x"), Exp(ins[2].a /\ ins[2].b, flip, 3), 12),
     AssertStmt(AtomVar("y"), Exp(ins[2].b \/ ins[2].c, flip, 4), 13) >>

\* test_smoke as written in mod.rs
SmokeBody ==
  << Assignment(<<"x", "y">>,
                NaryOp("something", <<AtomVar("a"), AtomVar("b"), Lit(FALSE)>>)),
     At(0), Set("a", TRUE), Set("b", TRUE),
     AssertStmt(AtomVar("x"), TRUE, 5),
     After(5), Set("a", TRUE), Set("b", FALSE),
     AssertStmt(AtomVar("x"), FALSE, 9) >>

\* Scenario A of the specification: c is a signal, d and e are asserted
ScenarioABody ==
  << Assignment(<<"d", "e">>,
                NaryOp("something", <<AtomVar("a"), AtomVar("b"), AtomVar("c")>>)),
     At(0), Set("a", TRUE), Set("b", TRUE),
     AssertStmt(AtomVar("d"), TRUE, 5),
     After(5), Set("b", FALSE), Set("c", TRUE),
     AssertStmt(AtomVar("e"), TRUE, 9) >>

\* two untimed assignments drive x
MultiBody ==
  << Assignment(<<"x">>, BinaryOp("And", AtomVar("a"), AtomVar("b"))),
     Assignment(<<"x">>, BinaryOp("Or", AtomVar("a"), AtomVar("b"))),
     At(0), Set("a", TRUE), Set("b", FALSE),
     AssertStmt(AtomVar("x"), FALSE, 6) >>

\* u is read and neither assigned nor set
UndrivenBody ==
  << Assignment(<<"y">>, BinaryOp("Or", AtomVar("a"), AtomVar("u"))),
     At(0), Set("a", FALSE),
     AssertStmt(AtomVar("y"), FALSE, 4) >>

\* x is driven by the negation of itself
OscBody ==
  << Assignment(<<"x">>, NaryOp("Not", <<AtomVar("x")>>)),
     At(0), Set("a", TRUE),
     AssertStmt(AtomVar("a"), TRUE, 4) >>

\* something invoked at two places, the second fed by the first, then pair,
\* which invokes something inside; d, e, a, b, c are names at the outer
\* level too
TwiceBody ==
  << Assignment(<<"x", "y">>,
                NaryOp("something", <<AtomVar("a"), AtomVar("b"), AtomVar("c")>>)),
     Assignment(<<"d", "e">>,
                NaryOp("something", <<AtomVar("x"), AtomVar("b"), AtomVar("a")>>)),
     Assignment(<<"p", "q">>, NaryOp("pair", <<AtomVar("d"), AtomVar("y")>>)),
     At(0), Set("a", TRUE), Set("b", TRUE), Set("c", FALSE),
     AssertStmt(AtomVar("d"), TRUE, 8),
     AssertStmt(AtomVar("p"), TRUE, 9),
     After(5), Set("b", FALSE),
     AssertStmt(AtomVar("d"), FALSE, 12),
     AssertStmt(AtomVar("e"), TRUE, 13),
     AssertStmt(AtomVar("q"), FALSE, 14) >>

\* a circuit that invokes itself is invoked
SelfCallBody ==
  << Assignment(<<"x">>, NaryOp("loop", <<AtomVar("a")>>)),
     At(0), Set("a", TRUE),
     AssertStmt(AtomVar("a"), TRUE, 4) >>

\* a circuit that invokes itself through another is invoked
MutualBody ==
  << Assignment(<<"x">>, NaryOp("ping", <<AtomVar("a")>>)),
     At(0), Set("a", TRUE),
     AssertStmt(AtomVar("a"), TRUE, 4) >>

\* no time directive: the schedule is empty
UntimedBody ==
  << Assignment(<<"x">>, BinaryOp("And", Lit(TRUE), Lit(FALSE))) >>

\* an acyclic chain written against its dependency order
ChainBody ==
  << Assignment(<<"r">>, NaryOp("Not", <<AtomVar("q")>>)),
     Assignment(<<"q">>, NaryOp("Not", <<AtomVar("p")>>)),
     Assignment(<<"p">>, BinaryOp("Nand", AtomVar("a"), AtomVar("a"))),
     At(0), Set("a", TRUE),
     AssertStmt(AtomVar("r"), FALSE, 6),
     At(3), Set("a", FALSE),
     AssertStmt(AtomVar("r"), TRUE, 9) >>

Bits3 == [a : BOOLEAN, b : BOOLEAN, c : BOOLEAN]

Bits2 == [a : BOOLEAN, b : BOOLEAN]

TestId(fam, ins, flip) == [fam |-> fam, ins |-> ins, flip |-> flip]

\* the tests written out one by one
LitIds == {TestId(f, << >>, 0) :
             f \in {"smoke", "add", "scenario_a", "scenario_c", "multi",
                    "undriven", "osc", "chain"}}

\* the tests a Program has alone
SoloIds == {TestId(f, << >>, 0) : f \in {"twice", "selfcall", "mutual", "untimed"}}

\* the full-adder tests over all inputs, none or one expectation inverted
AddIds == {TestId("addfam", ins, f) : ins \in [1..3 -> Bits2], f \in 0..6}

\* the and/or tests over all inputs, none or one expectation inverted
AndOrIds == {TestId("andorfam", ins, f) : ins \in [1..2 -> Bits3], f \in 0..4}

In110 == <<[a |-> TRUE, b |-> TRUE], [a |-> FALSE, b |-> FALSE], [a |-> TRUE, b |-> FALSE]>>

\* the syntax tree of a test; test_smoke and test_add are both named main,
\* and so is Scenario C, test_add with its first expectation inverted
TestOf(id) ==
  CASE id.fam = "smoke" -> Test("main", SmokeBody)
    [] id.fam = "add" -> Test("main", AddBody(In110, 0))
    [] id.fam = "scenario_a" -> Test("scenario_a", ScenarioABody)
    [] id.fam = "scenario_c" -> Test("main", AddBody(In110, 1))
    [] id.fam = "multi" -> Test("multi", MultiBody)
    [] id.fam = "undriven" -> Test("undriven", UndrivenBody)
    [] id.fam = "osc" -> Test("osc", OscBody)
    [] id.fam = "chain" -> Test("chain", ChainBody)
    [] id.fam = "twice" -> Test("twice", TwiceBody)
    [] id.fam = "selfcall" -> Test("selfcall", SelfCallBody)
    [] id.fam = "mutual" -> Test("mutual", MutualBody)
    [] id.fam = "untimed" -> Test("untimed", UntimedBody)
    [] id.fam = "addfam" -> Test("main", AddBody(id.ins, id.flip))
    [] id.fam = "andorfam" -> Test("main", AndOrBody(id.ins, id.flip))

\* the names run_test is called with: every test's name and one of no test
Names == {"main", "scenario_a", "multi", "undriven", "osc", "chain", "twice",
          "selfcall", "mutual", "untimed", "nosuch"}

RECURSIVE SeqsUpTo(_, _)
\* the sequences over S of length 0..n
SeqsUpTo(S, n) ==
  IF n = 0 THEN {<< >>}
  ELSE LET shorter == SeqsUpTo(S, n - 1)
       IN shorter \cup {Append(q, x) : q \in shorter, x \in S}

\* the Programs (their tests): up to MaxTests written-out tests, or one
\* test of a family
Programs ==
  SeqsUpTo(LitIds, MaxTests) \cup {<<t>> : t \in SoloIds \cup AddIds \cup AndOrIds}

(***************************************************************************)
(* The state: Simulator { program, config }, the place of the run inside   *)
(* run_test / run_all_tests / execute_process / step, the artefacts of the *)
(* test in progress, and the record of what has been done.                 *)
(***************************************************************************)
VARIABLES
  program,       \* Simulator.program.tests: the tests, in declaration order
  config,        \* Simulator.config
  call,          \* the public operation in progress and its argument
  pc,            \* the place of the run
  i,             \* the for loop's position in program.tests
  instantiated,  \* execute_process: let instantiated
  linked,        \* execute_process: let linked, then owned by the Simulation
  sim,           \* execute_process: let mut simulation
  ret,           \* what the last step() returned
  testRet,       \* what _run_test returned
  result,        \* what the public operation returned
  log,           \* history: the stages entered, each with its test
  checks,        \* history: the assertions evaluated
  trace,         \* history: the value changes (instant, signal, new value)
  again,         \* the operation has been called a second time
  first,         \* history: the record and result of the first call
  pure           \* a function of the library applied on its own: inputs, result

vars == <<program, config, call, pc, i, instantiated, linked, sim, ret,
          testRet, result, log, checks, trace, again, first, pure>>

\* the pass count propagation may reach; beyond it the step has not converged
PassBound == 12

Unit == [ok |-> TRUE, v |-> "unit"]

Pending == [ok |-> TRUE, v |-> "pending"]

Continue == [ok |-> TRUE, v |-> "Continue"]

Halted == [ok |-> TRUE, v |-> "Halted"]

\* the variants of SimulationError: each wraps the error of one source
SimulationErrorKinds == {"AssertionError", "ValueError", "VcdError"}

\* AssertionError: source span, expected value, actual value
AssertionError(span, expected, actual) ==
  Err([kind |-> "AssertionError", span |-> span, expected |-> expected,
       actual |-> actual])

ValueError == Err([kind |-> "ValueError", span |-> 0, expected |-> Bit(FALSE),
                   actual |-> Bit(FALSE)])

VcdError == Err([kind |-> "VcdError", span |-> 0, expected |-> Bit(FALSE),
                 actual |-> Bit(FALSE)])

NoInst == [name |-> Variable("", 0), body |-> << >>]

NoNet == [name |-> Variable("", 0), signals |-> {}, drivers |-> << >>,
          schedule |-> << >>]

NoSim == [time |-> 0, values |-> << >>, entry |-> 0, stim |-> 0, passes |-> 0,
          chk |-> 0]

\* one entry of the record: a stage, its test and, for a failure, the error
Event(ev, t, r) == [ev |-> ev, test |-> t, r |-> r]

\* one value change: the test, the instant, the signal and its new value
Change(t, at, signal, value) ==
  [test |-> t, at |-> at, signal |-> signal, value |-> value]

\* nothing kept of a first call
NoFirst == [log |-> << >>, checks |-> << >>, trace |-> << >>, result |-> Pending]

\* no function applied on its own
NoPure == [f |-> "none", in |-> << >>, out |-> << >>, done |-> FALSE]

\* Simulator::new(program, config): Ok(Self { program, config })
Init ==
  /\ program \in Programs
  /\ config \in [create_vcd : BOOLEAN]
  /\ call = [op |-> "none", name |-> ""]
  /\ pc = "idle"
  /\ i = 0
  /\ instantiated = NoInst
  /\ linked = NoNet
  /\ sim = NoSim
  /\ ret = Pending
  /\ testRet = Pending
  /\ result = Pending
  /\ log = << >>
  /\ checks = << >>
  /\ trace = << >>
  /\ again = FALSE
  /\ first = NoFirst
  /\ pure = NoPure

(***************************************************************************)
(* mod.rs: run_test, run_all_tests.                                        *)
(***************************************************************************)
\* faulty variant: every test counts as named
NameMatchesAny(test, name) == TRUE

\* i.name.0 == name.as_ref()
NameMatches(test, name) == test.name.name = name

\* faulty variant: the error of a test is dropped and the loop goes on
RunAllTestsTryDropsErr(r) == "next"

\* run_test, self._run_test(i)?: an Err returns from the operation, an Ok
\* goes on with the next test
RunTestTry(r) == IF r.ok THEN "next" ELSE "return"

\* run_all_tests, self._run_test(i)?: the same
RunAllTestsTry(r) == IF r.ok THEN "next" ELSE "return"

\* the end of the loop body, given what ? decided
Try(decision) ==
  /\ pc = "ret"
  /\ IF decision = "return"
     THEN /\ result' = testRet
          /\ pc' = "returned"
          /\ i' = i
     ELSE /\ pc' = "for"
          /\ i' = i + 1
          /\ result' = result
  /\ testRet' = Pending
  /\ UNCHANGED <<pure, again, first, trace, program, config,
                 call, instantiated, linked, sim, ret, log,
                 checks>>

\* pub fn run_test(&self, name)
RunTest(name) ==
  /\ pc = "idle"
  /\ call' = [op |-> "run_test", name |-> name]
  /\ pc' = "for"
  /\ i' = 1
  /\ UNCHANGED <<pure, again, first, trace, program, config,
                 instantiated, linked, sim, ret, testRet,
                 result, log, checks>>

\* run_test: for i in &self.program.tests { if ... { self._run_test(i)?; } } Ok(())
RunTestFor ==
  /\ call.op = "run_test"
  /\ \/ /\ pc = "for"
        /\ IF i > Len(program)
           THEN /\ result' = Unit
                /\ pc' = "returned"
                /\ i' = i
           ELSE IF NameMatches(TestOf(program[i]), call.name)
           THEN /\ pc' = "instantiate"
                /\ UNCHANGED <<i, result>>
           ELSE /\ i' = i + 1
                /\ UNCHANGED <<pc, result>>
        /\ UNCHANGED <<pure, again, first, trace, program, config,
                       call, instantiated, linked, sim, ret,
                       testRet, log, checks>>
     \/ Try(RunTestTry(testRet))

\* pub fn run_all_tests(&self)
RunAllTests ==
  /\ pc = "idle"
  /\ call' = [op |-> "run_all_tests", name |-> ""]
  /\ pc' = "for"
  /\ i' = 1
  /\ UNCHANGED <<pure, again, first, trace, program, config,
                 instantiated, linked, sim, ret, testRet,
                 result, log, checks>>

\* run_all_tests: for i in &self.program.tests { self._run_test(i)?; } Ok(())
RunAllTestsFor ==
  /\ call.op = "run_all_tests"
  /\ \/ /\ pc = "for"
        /\ IF i > Len(program)
           THEN /\ result' = Unit
                /\ pc' = "returned"
           ELSE /\ pc' = "instantiate"
                /\ result' = result
        /\ UNCHANGED <<pure, again, first, trace, program, config,
                       call, i, instantiated, linked, sim,
                       ret, testRet, log, checks>>
     \/ Try(RunAllTestsTry(testRet))

(***************************************************************************)
(* mod.rs: execute_process.                                                *)
(***************************************************************************)
\* the ways instantiate_program can treat a test, given that it hands back
\* the elaborated test and no Result: a test without invocation cycle is
\* elaborated as it is; for a cycle the call either does not return (the
\* recursion ends in a panic or overflows the stack) or hands back an
\* elaboration in which the cycle is cut
InstantiateOutcomes(test) ==
  IF InvocationCycle(test) THEN {"panic", "cut"} ELSE {"whole"}

\* let instantiated = instantiate_program(test); (and the vcd_ast, if asked)
InstantiateProgram ==
  /\ pc = "instantiate"
  /\ log' = Append(log, Event("instantiate", i, Pending))
  /\ \E o \in InstantiateOutcomes(TestOf(program[i])) :
       IF o = "panic"
       THEN /\ pc' = "panicked"
            /\ instantiated' = instantiated
       ELSE /\ instantiated' = instantiate_program(TestOf(program[i]))
            /\ pc' = "link"
  /\ UNCHANGED <<pure, again, first, trace, program, config,
                 call, i, linked, sim, ret, testRet, result,
                 checks>>

\* the ways link_process can treat an elaborated test, given that it hands
\* back a netlist and no Result: a well-formed test is linked as it is; for
\* a signal with several drivers or a read signal with none, the call
\* either panics or yields a netlist (one driver kept, the undriven signal
\* left at the default)
LinkOutcomes(inst) ==
  IF MultipleDrivers(inst.body) \/ UndrivenRead(inst.body)
  THEN {"panic", "first", "last"}
  ELSE {"first"}

\* let linked = link_process(instantiated);
LinkProcess ==
  /\ pc = "link"
  /\ log' = Append(log, Event("link", i, Pending))
  /\ \E o \in LinkOutcomes(instantiated) :
       IF o = "panic"
       THEN /\ pc' = "panicked"
            /\ linked' = linked
       ELSE /\ linked' = link_process(instantiated, o)
            /\ pc' = "new"
  /\ instantiated' = NoInst
  /\ UNCHANGED <<pure, again, first, trace, program, config,
                 call, i, sim, ret, testRet, result, checks>>

\* Simulation::new(linked, &self.config, vcd_ast): time zero, every signal
\* at the default value
SimulationInit(net) ==
  [time |-> 0, values |-> [s \in net.signals |-> Bit(FALSE)], entry |-> 1,
   stim |-> 1, passes |-> 0, chk |-> 1]

\* the values the change events so far have left in the signals of net
LeftValues(net) ==
  LET all == first.trace \o trace
      last(s) == CHOOSE n \in DOMAIN all :
                   all[n].signal = s /\ \A m \in DOMAIN all : all[m].signal = s => m <= n
  IN [s \in net.signals |->
        IF \E n \in DOMAIN all : all[n].signal = s THEN all[last(s)].value
        ELSE Bit(FALSE)]

\* faulty variant: no new engine per run, the value table is the one the
\* runs before have left
SimulationNewShared ==
  /\ pc = "new"
  /\ \/ /\ sim' = [SimulationInit(linked) EXCEPT !.values = LeftValues(linked)]
        /\ pc' = "step"
        /\ log' = Append(log, Event("new", i, Pending))
        /\ UNCHANGED <<linked, testRet>>
     \/ /\ config.create_vcd
        /\ testRet' = VcdError
        /\ log' = log \o <<Event("new", i, Pending), Event("error", i, VcdError)>>
        /\ pc' = "ret"
        /\ linked' = NoNet
        /\ sim' = sim
  /\ UNCHANGED <<pure, again, first, trace, program, config,
                 call, i, instantiated,
                 ret, result, checks>>

\* let mut simulation = Simulation::new(linked, &self.config, vcd_ast)?;
SimulationNew ==
  /\ pc = "new"
  /\ \/ /\ sim' = SimulationInit(linked)
        /\ pc' = "step"
        /\ log' = Append(log, Event("new", i, Pending))
        /\ UNCHANGED <<linked, testRet>>
     \/ /\ config.create_vcd
        /\ testRet' = VcdError
        /\ log' = log \o <<Event("new", i, Pending), Event("error", i, VcdError)>>
        /\ pc' = "ret"
        /\ linked' = NoNet
        /\ sim' = sim
  /\ UNCHANGED <<pure, again, first, trace, program, config,
                 call, i, instantiated, ret, result, checks>>

\* faulty variant: an Err is treated as Continue
WhileNextRetries(r) == IF r = Halted THEN "halted" ELSE "step"

\* faulty variant: the loop is left after the first step() that succeeds
WhileNextOnce(r) == IF ~r.ok THEN "return" ELSE "halted"

\* while let SimulationState::Continue = simulation.step()? {}: an Err
\* returns it, Continue calls step() again, Halted leaves the loop
WhileNext(r) ==
  IF ~r.ok THEN "return" ELSE IF r = Continue THEN "step" ELSE "halted"

\* while let SimulationState::Continue = simulation.step()? {}  Ok(())
ExecuteProcessWhile ==
  /\ pc = "while"
  /\ LET d == WhileNext(ret)
     IN IF d = "step"
        THEN /\ pc' = "step"
             /\ UNCHANGED <<linked, sim, testRet, log>>
        ELSE /\ testRet' = IF d = "return" THEN ret ELSE Unit
             /\ log' = Append(log, IF d = "return" THEN Event("error", i, ret)
                                   ELSE Event("halted", i, Pending))
             /\ pc' = "ret"
             /\ linked' = NoNet
             /\ sim' = NoSim
  /\ ret' = Pending
  /\ UNCHANGED <<pure, again, first, trace, program, config,
                 call, i, instantiated, result, checks>>

(***************************************************************************)
(* The engine: Simulation::step, in its four parts.                        *)
(***************************************************************************)
RECURSIVE PassFrom(_, _, _)
\* one propagation pass from driver n on: each target recomputed, in order,
\* from the current values; Ok(the new table) or the first error
PassFrom(d, n, vals) ==
  IF n > Len(d) THEN Ok(vals)
  ELSE LET r == Eval(d[n].expr, vals)
       IN IF ~r.ok THEN r
          ELSE PassFrom(d, n + 1, [vals EXCEPT ![d[n].into] = r.v])

RECURSIVE PassChanges(_, _, _)
\* the value changes of that pass, in the order they are made
PassChanges(d, n, vals) ==
  IF n > Len(d) THEN << >>
  ELSE LET r == Eval(d[n].expr, vals)
       IN IF ~r.ok THEN << >>
          ELSE (IF vals[d[n].into] = r.v THEN << >>
                ELSE <<Change(i, sim.time, d[n].into, r.v)>>)
               \o PassChanges(d, n + 1, [vals EXCEPT ![d[n].into] = r.v])

\* a full pass changes no value
Settled(net, vals) ==
  LET r == PassFrom(net.drivers, 1, vals) IN r.ok /\ r.v = vals

Entry == linked.schedule[sim.entry]

\* a failed evaluation ends the step: a panic unwinds, an error is returned
StepFails(r) ==
  IF r.err = "panic"
  THEN /\ pc' = "panicked"
       /\ UNCHANGED <<ret, log>>
  ELSE /\ ret' = ValueError
       /\ log' = Append(log, Event("step_err", i, ValueError))
       /\ pc' = "while"

\* step(), part 1: Halted on an exhausted schedule, else the clock moves to
\* the entry's instant
StepBegin ==
  /\ pc = "step"
  /\ log' = Append(log, Event("step", i, Pending))
  /\ IF sim.entry > Len(linked.schedule)
     THEN /\ ret' = Halted
          /\ pc' = "while"
          /\ sim' = sim
     ELSE /\ sim' = [sim EXCEPT !.time = Entry.at, !.stim = 1, !.passes = 0,
                                !.chk = 1]
          /\ pc' = IF Entry.stimulus = << >> THEN "propagate" ELSE "stimulus"
          /\ ret' = ret
  /\ UNCHANGED <<pure, again, first, trace, program, config,
                 call, i, instantiated, linked, testRet,
                 result, checks>>

\* step(), part 1: the next stimulus assignment overwrites its target
StepStimulus ==
  /\ pc = "stimulus"
  /\ LET a == Entry.stimulus[sim.stim]
         r == Eval(a.expr, sim.values)
     IN IF r.ok
        THEN /\ sim' = [sim EXCEPT !.values[a.into] = r.v, !.stim = @ + 1]
             /\ trace' = IF sim.values[a.into] = r.v THEN trace
                         ELSE Append(trace, Change(i, sim.time, a.into, r.v))
             /\ pc' = IF sim.stim + 1 > Len(Entry.stimulus)
                      THEN "propagate" ELSE "stimulus"
             /\ UNCHANGED <<ret, log>>
        ELSE /\ StepFails(r)
             /\ UNCHANGED <<sim, trace>>
  /\ UNCHANGED <<pure, again, first, program, config,
                 call, i, instantiated, linked, testRet,
                 result, checks>>

\* faulty variant: propagation stops after its first pass
FixedPointAtOnce(before, after) == TRUE

\* the pass just made changed nothing: the fixed point
FixedPoint(before, after) == before = after

\* step(), part 2: one propagation pass; at the fixed point the assertions
\* are next
StepPropagate ==
  /\ pc = "propagate"
  /\ sim.passes <= PassBound
  /\ LET r == PassFrom(linked.drivers, 1, sim.values)
     IN IF ~r.ok
        THEN /\ StepFails(r)
             /\ UNCHANGED <<sim, trace>>
        ELSE /\ UNCHANGED <<ret, log>>
             /\ IF FixedPoint(sim.values, r.v)
                THEN /\ pc' = IF Entry.asserts = << >> THEN "advance" ELSE "assert"
                     /\ UNCHANGED <<sim, trace>>
                ELSE /\ sim' = [sim EXCEPT !.values = r.v, !.passes = @ + 1]
                     /\ trace' = trace \o PassChanges(linked.drivers, 1, sim.values)
                     /\ pc' = pc
  /\ UNCHANGED <<pure, again, first, program, config,
                 call, i, instantiated, linked, testRet,
                 result, checks>>

\* step(), part 2, past the pass bound.  step() returns Continue, Halted or
\* an error SimulationError has a variant for, and non-convergence is none
\* of them: the step panics or goes on propagating (the record of value
\* changes is kept up to the bound)
StepDiverged ==
  /\ pc = "propagate"
  /\ sim.passes > PassBound
  /\ \/ /\ pc' = "panicked"
        /\ sim' = sim
     \/ /\ LET r == PassFrom(linked.drivers, 1, sim.values)
           IN r.ok /\ sim' = [sim EXCEPT !.values = r.v]
        /\ pc' = pc
  /\ UNCHANGED <<pure, again, first, trace, program, config,
                 call, i, instantiated, linked, ret, testRet,
                 result, log, checks>>

\* step(), part 3: the next assertion of the instant: its expression's
\* value against the expected literal
StepAssert ==
  /\ pc = "assert"
  /\ LET a == Entry.asserts[sim.chk]
         r == Eval(a.expr, sim.values)
     IN IF ~r.ok
        THEN /\ StepFails(r)
             /\ UNCHANGED <<sim, checks>>
        ELSE /\ checks' = Append(checks,
                  [test |-> i, at |-> sim.time, span |-> a.span,
                   expected |-> Bit(a.expected), actual |-> r.v,
                   settled |-> Settled(linked, sim.values)])
             /\ IF r.v = Bit(a.expected)
                THEN /\ sim' = [sim EXCEPT !.chk = @ + 1]
                     /\ pc' = IF sim.chk + 1 > Len(Entry.asserts)
                              THEN "advance" ELSE "assert"
                     /\ UNCHANGED <<ret, log>>
                ELSE /\ ret' = AssertionError(a.span, Bit(a.expected), r.v)
                     /\ log' = Append(log, Event("step_err", i, ret'))
                     /\ pc' = "while"
                     /\ sim' = sim
  /\ UNCHANGED <<pure, again, first, trace, program, config,
                 call, i, instantiated, linked, testRet,
                 result>>

\* step(), part 4: on to the next entry; Continue if one remains
StepAdvance ==
  /\ pc = "advance"
  /\ sim' = [sim EXCEPT !.entry = @ + 1]
  /\ ret' = IF sim.entry + 1 <= Len(linked.schedule) THEN Continue ELSE Halted
  /\ pc' = "while"
  /\ UNCHANGED <<pure, again, first, trace, program, config,
                 call, i, instantiated, linked, testRet,
                 result, log, checks>>

Next ==
  \/ \E name \in Names : RunTest(name)
  \/ RunTestFor
  \/ RunAllTests
  \/ RunAllTestsFor
  \/ InstantiateProgram
  \/ LinkProcess
  \/ SimulationNew
  \/ ExecuteProcessWhile
  \/ StepBegin
  \/ StepStimulus
  \/ StepPropagate
  \/ StepDiverged
  \/ StepAssert
  \/ StepAdvance

Spec == Init /\ [][Next]_vars

(***************************************************************************)
(* The same operation called a second time on the Simulator.               *)
(***************************************************************************)
\* run_test(&self, name) or run_all_tests(&self) called again as before, after
\* it has returned; the record of the first call is set aside
RunAgain ==
  /\ pc = "returned"
  /\ ~again
  /\ again' = TRUE
  /\ first' = [log |-> log, checks |-> checks, trace |-> trace, result |-> result]
  /\ log' = << >>
  /\ checks' = << >>
  /\ trace' = << >>
  /\ result' = Pending
  /\ pc' = "for"
  /\ i' = 1
  /\ UNCHANGED <<pure, program, config, call, instantiated, linked, sim, ret,
                 testRet>>

\* the Programs of written-out tests
WrittenPrograms == SeqsUpTo(LitIds, MaxTests) \cup {<<t>> : t \in SoloIds}

InitAgain == Init /\ program \in WrittenPrograms

NextAgain == Next \/ RunAgain

SpecAgain == InitAgain /\ [][NextAgain]_vars

(***************************************************************************)
(* The functions of the library applied on their own: the inputs are drawn *)
(* by InitPure, one action per function applies it.                        *)
(***************************************************************************)
\* the largest span of a reference; span 0 stands for None
MaxSpan == 2

SignalNames == {"a", "b", "c"}

\* the Variables of a name and an optional span
Variables == {Variable(n, s) : n \in SignalNames, s \in 0..MaxSpan}

PureInput(f, in) == [f |-> f, in |-> in, out |-> << >>, done |-> FALSE]

\* two references, to be compared, hashed and looked up
VariableInputs == {PureInput("Variable", <<v, w>>) : v, w \in Variables}

\* v == w, the hashes of v and w, and the lookup of w in a table that holds
\* v, both localized in one invocation
CompareVariables ==
  /\ pure.f = "Variable"
  /\ ~pure.done
  /\ LET v == pure.in[1]
         w == pure.in[2]
         path == <<Package("something", 1)>>
         table == {Key(localize(v, path))}
     IN pure' = [pure EXCEPT !.done = TRUE,
                             !.out = [eq |-> VariableEq(v, w),
                                      hv |-> VariableHash(v),
                                      hw |-> VariableHash(w),
                                      found |-> Key(localize(w, path)) \in table]]
  /\ UNCHANGED <<program, config, call, pc, i, instantiated, linked, sim, ret,
                 testRet, result, log, checks, trace, again, first>>

\* the operators of the value algebra
ValueOps == {"And", "Or", "Xor", "Not"}

\* the values: Value has the one variant Bit
Values == {Bit(b) : b \in BOOLEAN}

\* an operator and its operands (Not takes the first only)
ValueInputs ==
  {PureInput("Value", [op |-> o, a |-> x, b |-> y]) :
     o \in ValueOps, x \in Values, y \in Values}

\* self & rhs, self | rhs, self ^ rhs, !self
ApplyValueOp ==
  /\ pure.f = "Value"
  /\ ~pure.done
  /\ LET in == pure.in
     IN pure' = [pure EXCEPT !.done = TRUE,
                             !.out = CASE in.op = "And" -> BitAnd(in.a, in.b)
                                       [] in.op = "Or" -> BitOr(in.a, in.b)
                                       [] in.op = "Xor" -> BitXor(in.a, in.b)
                                       [] in.op = "Not" -> Not(in.a)]
  /\ UNCHANGED <<program, config, call, pc, i, instantiated, linked, sim, ret,
                 testRet, result, log, checks, trace, again, first>>

\* the longest list of time directives, and the largest instant or duration
MaxDirectives == 3

MaxTime == 2

\* TimeSpec::At(t), TimeSpec::After(d)
Directives == {At(t) : t \in 0..MaxTime} \cup {After(d) : d \in 0..MaxTime}

\* a timed body: each directive followed by one assertion, whose span is
\* the directive's position
TimedBody(ds) ==
  [n \in 1..(2 * Len(ds)) |->
     IF n % 2 = 1 THEN ds[(n + 1) \div 2]
     ELSE AssertStmt(Lit(TRUE), Bit(TRUE), n \div 2)]

ScheduleInputs ==
  {PureInput("Schedule", ds) : ds \in SeqsUpTo(Directives, MaxDirectives)}

\* the linker's schedule of the timed body
NormalizeSchedule ==
  /\ pure.f = "Schedule"
  /\ ~pure.done
  /\ pure' = [pure EXCEPT !.done = TRUE, !.out = Schedule(TimedBody(pure.in))]
  /\ UNCHANGED <<program, config, call, pc, i, instantiated, linked, sim, ret,
                 testRet, result, log, checks, trace, again, first>>

PureInputs == VariableInputs \cup ValueInputs \cup ScheduleInputs

InitPure ==
  /\ pure \in PureInputs
  /\ program = << >>
  /\ config = [create_vcd |-> FALSE]
  /\ call = [op |-> "none", name |-> ""]
  /\ pc = "idle"
  /\ i = 0
  /\ instantiated = NoInst
  /\ linked = NoNet
  /\ sim = NoSim
  /\ ret = Pending
  /\ testRet = Pending
  /\ result = Pending
  /\ log = << >>
  /\ checks = << >>
  /\ trace = << >>
  /\ again = FALSE
  /\ first = NoFirst

NextPure ==
  \/ CompareVariables
  \/ ApplyValueOp
  \/ NormalizeSchedule

SpecPure == InitPure /\ [][NextPure]_vars

(***************************************************************************)
(* Properties.                                                             *)
(***************************************************************************)
\* the value the entry's stimulus leaves in signal s: that of the last
\* stimulus assignment to s (a stimulus here assigns a literal)
LastStimulus(e, s) ==
  LET n == CHOOSE m \in DOMAIN e.stimulus :
             /\ e.stimulus[m].into = s
             /\ \A q \in DOMAIN e.stimulus : e.stimulus[q].into = s => q <= m
  IN ValueFrom(e.stimulus[n].expr.c)

\* every stimulus assignment of the entry has been applied to the table
StimulusApplied ==
  /\ sim.stim = Len(Entry.stimulus) + 1
  /\ \A n \in DOMAIN Entry.stimulus :
       sim.values[Entry.stimulus[n].into] = LastStimulus(Entry, Entry.stimulus[n].into)

\* C1: within one instant every stimulus assignment is applied before
\* propagation starts, and an assertion is evaluated only on a value table
\* that is at the fixed point (a full pass changes nothing) for that instant
C1_StimulusPropagateAssert ==
  /\ pc \in {"propagate", "assert", "advance"} =>
       StimulusApplied /\ sim.time = Entry.at
  /\ pc \in {"assert", "advance"} => Settled(linked, sim.values)
  /\ \A n \in DOMAIN checks : checks[n].settled

\* an assertion is about to be evaluated after stimulus and after passes
\* that changed values
C1_Witness ==
  /\ pc = "assert"
  /\ sim.passes >= 1
  /\ Len(Entry.stimulus) >= 2
  /\ sim.entry >= 2

\* the tests of the events of one kind, in the order they happened
TestsOf(ev) ==
  LET es == SelectSeq(log, LAMBDA e : e.ev = ev)
  IN [n \in DOMAIN es |-> es[n].test]

\* the record is of one test after the other, in declaration order, and a
\* failure ends it
OneAtATime ==
  /\ \A n \in 1..(Len(log) - 1) : log[n].test <= log[n + 1].test
  /\ \A n \in 1..(Len(log) - 1) : log[n].ev # "error"

\* test t was elaborated, linked, simulated and ran to Halted
RanToHalted(t) ==
  \A ev \in {"instantiate", "link", "new", "step", "halted"} :
    \E n \in DOMAIN log : log[n].ev = ev /\ log[n].test = t

\* the operation returned the error of the failing test, the last event
ReturnedItsError ==
  /\ log # << >>
  /\ log[Len(log)].ev = "error"
  /\ log[Len(log)].r = result

\* C2: run_all_tests runs the tests one at a time in declaration order and
\* aborts at the first failing test: it returns that test's error, no later
\* test is elaborated, linked or simulated, and it returns success only if
\* every test ran to Halted without error
C2_RunAllTestsAbortsAtFirstFailure ==
  call.op = "run_all_tests" =>
    /\ OneAtATime
    /\ \A n \in DOMAIN TestsOf("instantiate") : TestsOf("instantiate")[n] = n
    /\ pc = "returned" =>
         IF result.ok
         THEN result = Unit /\ \A t \in DOMAIN program : RanToHalted(t)
         ELSE /\ ReturnedItsError
              /\ \A n \in DOMAIN log : log[n].test <= log[Len(log)].test

\* run_all_tests returned the error of a test that is not the last, and
\* the tests before it ran to Halted
C2_Witness ==
  /\ call.op = "run_all_tests"
  /\ pc = "returned"
  /\ ~result.ok
  /\ Len(program) >= 2
  /\ log[Len(log)].test < Len(program)

\* the positions of the tests named as run_test's argument, ascending
Matching ==
  SortedSeq({t \in DOMAIN program : TestOf(program[t]).name.name = call.name})

IsPrefix(p, q) == Len(p) <= Len(q) /\ \A n \in DOMAIN p : p[n] = q[n]

\* the original C3: when run_test returns, every test with the name has
\* been elaborated, linked and simulated (seen here with no waveform asked
\* for, so that the only failures are those of step())
C3_Original ==
  (call.op = "run_test" /\ pc = "returned" /\ ~config.create_vcd) =>
    TestsOf("instantiate") = Matching

\* C3 (amended): run_test(name) runs the tests whose name equals name, in
\* declaration order, up to and including the first that fails, and no test
\* of another name; it returns that failure, and success (all of them run to
\* Halted) otherwise
C3_RunTestRunsMatchingUntilFailure ==
  call.op = "run_test" =>
    /\ OneAtATime
    /\ IsPrefix(TestsOf("instantiate"), Matching)
    /\ \A n \in DOMAIN log : TestOf(program[log[n].test]).name.name = call.name
    /\ pc = "returned" =>
         IF result.ok
         THEN /\ result = Unit
              /\ TestsOf("instantiate") = Matching
              /\ \A n \in DOMAIN Matching : RanToHalted(Matching[n])
         ELSE ReturnedItsError

\* run_test returned after skipping a test of another name and running the
\* test of the name declared after it
C3_Witness ==
  /\ call.op = "run_test"
  /\ pc = "returned"
  /\ Matching = <<2>>
  /\ TestsOf("halted") = <<2>>

\* C4: an error returned by step() is fatal to the test in progress: step()
\* is not called again, nothing more of the schedule is applied, no later
\* assertion is evaluated, and the error is what the test run returns
C4_StepErrorIsFatal ==
  /\ \A n \in DOMAIN log : log[n].ev = "step_err" =>
       /\ \A m \in (n + 1)..Len(log) :
            /\ log[m].ev = "error"
            /\ log[m].r = log[n].r
            /\ log[m].test = log[n].test
       /\ n = Len(log) => pc = "while" /\ ret = log[n].r
       /\ n < Len(log) =>
            /\ pc \in {"ret", "returned"}
            /\ pc = "ret" => testRet = log[n].r
            /\ pc = "returned" => result = log[n].r
  /\ \A n \in DOMAIN checks :
       checks[n].expected # checks[n].actual => n = Len(checks)
  /\ (pc = "while" /\ ~ret.ok) =>
       log[Len(log)].ev = "step_err" /\ ret.err.kind \in SimulationErrorKinds

\* the first assertion of a test with three instants failed, and the run
\* returned its error
C4_Witness ==
  /\ pc = "returned"
  /\ ~result.ok
  /\ result.err.kind = "AssertionError"
  /\ Len(checks) = 1
  /\ Len(TestsOf("step")) = 1

\* the elaborated body of the test at position t
BodyOf(t) == instantiate_program(TestOf(program[t])).body

\* the run of the test in progress has ended with an error of this kind
FailedWith(kind) ==
  \/ pc = "ret" /\ ~testRet.ok /\ testRet.err.kind = kind
  \/ pc = "returned" /\ ~result.ok /\ result.err.kind = kind

\* C5: a test with two assignments driving one signal fails at linking with
\* a multiple-drivers error, before any simulation step is taken for it
C5_MultipleDriversFailLinking ==
  \A n \in DOMAIN log :
    (log[n].ev = "link" /\ MultipleDrivers(BodyOf(log[n].test))) =>
      /\ FailedWith("MultipleDrivers")
      /\ \A m \in DOMAIN log :
           log[m].test = log[n].test => log[m].ev \notin {"new", "step"}

\* C6: a test that reads a signal which is neither set nor assigned fails
\* at linking with an undriven-signal error; it never goes on to simulation
\* with that signal at a default value
C6_UndrivenReadFailsLinking ==
  \A n \in DOMAIN log :
    (log[n].ev = "link" /\ UndrivenRead(BodyOf(log[n].test))) =>
      /\ FailedWith("UndrivenSignal")
      /\ \A m \in DOMAIN log :
           log[m].test = log[n].test => log[m].ev \notin {"new", "step"}

\* C7: in every step propagation ends within the pass bound: at a fixed
\* point, or, once the bound is exceeded, with a non-convergence error that
\* step() returns
C7_FixedPointTermination ==
  (sim # NoSim /\ sim.passes > PassBound) =>
    /\ pc = "while"
    /\ ~ret.ok
    /\ ret.err.kind = "NonConvergence"

\* the tests built on the full adder, their inputs at the three instants
\* and the assertion expecting the opposite value, if any
IsAddTest(id) == id.fam \in {"add", "scenario_c", "addfam"}

InsOf(id) == IF id.fam = "addfam" THEN id.ins ELSE In110

FlipOf(id) == IF id.fam = "scenario_c" THEN 1 ELSE id.flip

\* the position in the schedule of the instant a check was made at
InstantNo(c) == (c.at \div 5) + 1

\* the run returned success, or the waveform file could not be made
SuccessUnlessVcd ==
  \/ result = Unit
  \/ config.create_vcd /\ ~result.ok /\ result.err.kind = "VcdError"

\* C8: in the full-adder test every asserted output carries
\* o = a xor b xor c_in, c_out = (a and b) or ((a xor b) and c_in) of the
\* inputs set at that instant (c_in = 0), so an assertion expecting that
\* value passes, and run_all_tests returns success when all of them do
C8_FullAdder ==
  /\ \A n \in DOMAIN checks :
       LET c == checks[n]
           id == program[c.test]
           in == InsOf(id)[InstantNo(c)]
       IN IsAddTest(id) =>
            /\ c.span \in {5, 10, 15} => c.actual = Bit((in.a # in.b) # FALSE)
            /\ c.span \in {6, 11, 16} =>
                 c.actual = Bit((in.a /\ in.b) \/ ((in.a # in.b) /\ FALSE))
  /\ ( /\ call.op = "run_all_tests"
       /\ pc = "returned"
       /\ \A t \in DOMAIN program :
            IsAddTest(program[t]) /\ FlipOf(program[t]) = 0 ) =>
       /\ SuccessUnlessVcd
       /\ result = Unit => Len(checks) = 6 * Len(program)

\* run_all_tests returned success for a full-adder test whose six
\* assertions, with a = b = 1 at the last instant, all passed
C8_Witness ==
  /\ call.op = "run_all_tests"
  /\ pc = "returned"
  /\ result = Unit
  /\ Len(program) = 1
  /\ program[1].fam = "addfam"
  /\ program[1].ins[3] = [a |-> TRUE, b |-> TRUE]
  /\ program[1].ins[1] = [a |-> FALSE, b |-> TRUE]
  /\ Len(checks) = 6

\* Scenario C: test_add with the first assertion expecting o = 1
IsScenarioC(id) ==
  \/ id.fam = "scenario_c"
  \/ id.fam = "addfam" /\ id.ins = In110 /\ id.flip = 1

\* C9: Scenario C fails with an assertion error reporting expected 1 and
\* actual 0, with the span of that assertion; it is raised at instant 0 and
\* none of the later assertions is evaluated
C9_ScenarioC ==
  \A t \in DOMAIN program : IsScenarioC(program[t]) =>
    /\ \A n \in DOMAIN log : log[n].test = t =>
         /\ log[n].ev # "halted"
         /\ log[n].ev \in {"step_err", "error"} =>
              \/ log[n].r = AssertionError(5, Bit(TRUE), Bit(FALSE))
              \/ log[n].ev = "error" /\ log[n].r = VcdError
    /\ \A n \in DOMAIN checks : checks[n].test = t =>
         /\ checks[n].at = 0
         /\ checks[n].span = 5
         /\ checks[n].expected = Bit(TRUE)
         /\ checks[n].actual = Bit(FALSE)
    /\ \A n, m \in DOMAIN checks :
         (checks[n].test = t /\ checks[m].test = t) => n = m
    /\ \A n \in DOMAIN log :
         (log[n].test = t /\ log[n].ev = "step") =>
           \A m \in DOMAIN log : (log[m].test = t /\ log[m].ev = "step") => n = m

\* run_all_tests returned the assertion error of Scenario C
C9_Witness ==
  /\ pc = "returned"
  /\ program = <<TestId("scenario_c", << >>, 0)>>
  /\ result = AssertionError(5, Bit(TRUE), Bit(FALSE))
  /\ Len(checks) = 1

\* C10: the outer signals bound to the outputs of something carry, at each
\* instant, d = a and b and e = b or c of the inputs applied at that
\* instant; in Scenario A both assertions (d = 1 at 0, e = 1 at 5) pass, and
\* in test_smoke the output bound to d is 0 at instant 5, where b = 0
C10_AndOr ==
  /\ \A n \in DOMAIN checks :
       LET c == checks[n]
           id == program[c.test]
       IN /\ id.fam = "andorfam" =>
               LET in == id.ins[InstantNo(c)]
               IN /\ c.span \in {6, 12} => c.actual = Bit(in.a /\ in.b)
                  /\ c.span \in {7, 13} => c.actual = Bit(in.b \/ in.c)
          /\ id.fam = "scenario_a" =>
               c.actual = Bit(TRUE) /\ c.expected = Bit(TRUE)
          /\ id.fam = "smoke" =>
               c.actual = Bit(c.at = 0) /\ c.expected = c.actual
  /\ ( /\ call.op = "run_all_tests"
       /\ pc = "returned"
       /\ \A t \in DOMAIN program :
            \/ program[t].fam \in {"scenario_a", "smoke"}
            \/ program[t].fam = "andorfam" /\ program[t].flip = 0 ) =>
       SuccessUnlessVcd

\* run_all_tests returned success for Scenario A after its two assertions
C10_Witness ==
  /\ call.op = "run_all_tests"
  /\ pc = "returned"
  /\ program = <<TestId("scenario_a", << >>, 0)>>
  /\ result = Unit
  /\ Len(checks) = 2
  /\ checks[2].at = 5

\* C18: run_test(name) with a name that matches no test returns success and
\* elaborates, links and simulates nothing: an unknown name is no error
C18_UnknownNameIsSuccess ==
  (call.op = "run_test" /\ Matching = << >>) =>
    /\ log = << >>
    /\ checks = << >>
    /\ pc \in {"for", "returned"}
    /\ instantiated = NoInst /\ linked = NoNet /\ sim = NoSim
    /\ pc = "returned" => result = Unit

\* run_test returned for a name that none of the two tests of the program
\* has
C18_Witness ==
  /\ call.op = "run_test"
  /\ call.name = "nosuch"
  /\ pc = "returned"
  /\ Len(program) = 2
  /\ result = Unit

\* C12: two Variables are equal, and hash equally, exactly when their names
\* are equal, whatever their spans (present, absent or different); so a
\* table keyed by a signal finds a reference written at another place
C12_VariableIdentityIgnoresSpan ==
  (pure.f = "Variable" /\ pure.done) =>
    LET v == pure.in[1]
        w == pure.in[2]
    IN /\ pure.out.eq <=> v.name = w.name
       /\ pure.out.hv = pure.out.hw <=> v.name = w.name
       /\ pure.out.found <=> v.name = w.name

\* a reference with no span and one with a span, of one name, were compared
\* and found equal
C12_Witness ==
  /\ pure.f = "Variable"
  /\ pure.done
  /\ pure.in[1].name = pure.in[2].name
  /\ pure.in[1].span = 0
  /\ pure.in[2].span = MaxSpan
  /\ pure.out.eq
  /\ pure.out.found

\* C17: on bits the value algebra is total: and, or, xor of two bits and not
\* of one bit return Ok(Bit(..)) of the boolean conjunction, disjunction,
\* exclusive or and negation; the result has the kind of the operands, and
\* no error (type mismatch) comes back for bit operands
C17_ValueAlgebraOnBits ==
  (pure.f = "Value" /\ pure.done) =>
    LET a == pure.in.a.b
        b == pure.in.b.b
    IN /\ pure.out.ok
       /\ pure.out.v.kind = pure.in.a.kind
       /\ pure.out = Ok(Bit(CASE pure.in.op = "And" -> a /\ b
                              [] pure.in.op = "Or" -> a \/ b
                              [] pure.in.op = "Xor" -> (a /\ ~b) \/ (~a /\ b)
                              [] pure.in.op = "Not" -> ~a))

\* or was applied to a false and a true bit and gave Ok(Bit(true))
C17_Witness ==
  /\ pure.f = "Value"
  /\ pure.done
  /\ pure.in = [op |-> "Or", a |-> Bit(FALSE), b |-> Bit(TRUE)]
  /\ pure.out = Ok(Bit(TRUE))

RECURSIVE Resolved(_, _)
\* the instant directive n of the list ds resolves to: t for "at t", the
\* previous directive's instant (zero if none) plus d for "after d"
Resolved(ds, n) ==
  IF ds[n].spec = "At" THEN ds[n].t
  ELSE (IF n = 1 THEN 0 ELSE Resolved(ds, n - 1)) + ds[n].t

\* the spans of the assertions of a schedule entry, in their order
AssertSpans(e) == [n \in DOMAIN e.asserts |-> e.asserts[n].span]

\* C14: for every list of time directives the schedule is one strictly
\* ascending sequence of instants: the instants are those the directives
\* resolve to ("at t" to t, "after d" to the previous directive's instant
\* plus d), the statements of directives that resolve to one instant are in
\* one entry in declaration order, also where an "at t" is earlier than a
\* directive before it
C14_ScheduleAscendingMerged ==
  (pure.f = "Schedule" /\ pure.done) =>
    LET ds == pure.in
        sch == pure.out
    IN /\ \A n \in 1..(Len(sch) - 1) : sch[n].at < sch[n + 1].at
       /\ {sch[n].at : n \in DOMAIN sch} = {Resolved(ds, k) : k \in DOMAIN ds}
       /\ \A n \in DOMAIN sch :
            AssertSpans(sch[n]) =
              SortedSeq({k \in DOMAIN ds : Resolved(ds, k) = sch[n].at})

\* "after 2", then "at 1", earlier, then "after 0": two entries, the first
\* at 1 with the statements of the second and third directive
C14_Witness ==
  /\ pure.f = "Schedule"
  /\ pure.done
  /\ pure.in = <<After(2), At(1), After(0)>>
  /\ Len(pure.out) = 2
  /\ pure.out[1].at = 1
  /\ AssertSpans(pure.out[1]) = <<2, 3>>
  /\ pure.out[2].at = 2

\* the signals of the test in progress, once elaborated
ElabSignals ==
  IF pc = "link" THEN Signals(instantiated.body)
  ELSE IF linked # NoNet THEN linked.signals ELSE {}

\* the names of the signals localized under path
NamesUnder(path) == {k.name : k \in {s \in ElabSignals : s.path = path}}

\* the names a circuit declares or assigns
CircuitNames(c) ==
  {c.inputs[n] : n \in DOMAIN c.inputs} \cup {c.outputs[n] : n \in DOMAIN c.outputs}
    \cup UNION {{c.body[n].into[m] : m \in DOMAIN c.body[n].into} : n \in DOMAIN c.body}

\* the frames of the invocations of test twice: something at the first and
\* second statement, pair at the third and something inside it
FirstCall == <<Package("something", 1)>>

SecondCall == <<Package("something", 2)>>

PairCall == <<Package("pair", 3)>>

InnerCall == <<Package("pair", 3), Package("something", 1)>>

\* C16: two invocations of one circuit within a test elaborate to disjoint
\* sets of localized signals: each invocation has the circuit's names under
\* a path of its own, the same for all its signals, so that a name inside
\* one invocation is a signal other than that name inside another
\* invocation or at the outer level
C16_InvocationsAreDisjoint ==
  /\ \A s \in ElabSignals :
       s.path # << >> => s.name \in CircuitNames(Circuits[s.path[Len(s.path)].unit])
  /\ (ElabSignals # {} /\ program[i].fam = "twice") =>
       /\ NamesUnder(FirstCall) = CircuitNames(CircuitSomething)
       /\ NamesUnder(SecondCall) = CircuitNames(CircuitSomething)
       /\ NamesUnder(InnerCall) = CircuitNames(CircuitSomething)
       /\ NamesUnder(PairCall) = CircuitNames(CircuitPair)
       /\ NamesUnder(<< >>) = {"a", "b", "c", "x", "y", "d", "e", "p", "q"}
       /\ Cardinality(ElabSignals) =
            3 * Cardinality(CircuitNames(CircuitSomething))
              + Cardinality(CircuitNames(CircuitPair)) + Cardinality(NamesUnder(<< >>))
       /\ pc = "link" => ~MultipleDrivers(instantiated.body)
  /\ \A n \in DOMAIN checks :
       program[checks[n].test].fam = "twice" => checks[n].actual = checks[n].expected

\* at the second instant of test twice the input a of the first invocation
\* of something is 1 and that of the second is 0, and d is 0 at the outer
\* level
C16_Witness ==
  /\ pc = "assert"
  /\ program[i].fam = "twice"
  /\ sim.entry = 2
  /\ sim.values[[name |-> "a", path |-> FirstCall]] = Bit(TRUE)
  /\ sim.values[[name |-> "a", path |-> SecondCall]] = Bit(FALSE)
  /\ sim.values[[name |-> "a", path |-> << >>]] = Bit(TRUE)
  /\ sim.values[[name |-> "e", path |-> InnerCall]] = Bit(FALSE)
  /\ sim.values[[name |-> "e", path |-> << >>]] = Bit(TRUE)

\* C13: the elaboration of a test whose circuits invoke themselves, directly
\* or through others, ends: the test is rejected with an elaboration error,
\* and neither linked nor simulated
C13_CycleRejectedAtElaboration ==
  \A n \in DOMAIN log :
    (log[n].ev = "instantiate" /\ InvocationCycle(TestOf(program[log[n].test]))) =>
      /\ FailedWith("ElaborationError")
      /\ \A m \in DOMAIN log :
           log[m].test = log[n].test => log[m].ev \notin {"link", "new", "step"}

\* the number of calls of step() for the test at position t
StepCount(t) == Len(SelectSeq(log, LAMBDA e : e.ev = "step" /\ e.test = t))

\* the number of entries of the schedule of the test at position t
EntryCount(t) == Len(Schedule(BodyOf(t)))

\* at least one call of step(), and no more than there are entries
AtMostCalls(n) == IF n = 0 THEN 1 ELSE n

\* what holds of the engine in every state
EngineStepsThroughSchedule ==
  /\ (log # << >> /\ log[Len(log)].ev = "new") =>
       pc = "step" /\ sim.time = 0 /\ sim.entry = 1
  /\ (pc = "while" /\ ret.ok) =>
       /\ ret = Continue <=> sim.entry <= Len(linked.schedule)
       /\ ret = Halted <=> sim.entry > Len(linked.schedule)
       /\ sim.entry = IF linked.schedule = << >> THEN 1 ELSE StepCount(i) + 1
  /\ linked # NoNet => StepCount(i) <= AtMostCalls(Len(linked.schedule))
  /\ (pc = "ret" /\ testRet = Unit) => StepCount(i) = AtMostCalls(EntryCount(i))

\* C15: the engine starts at time zero, ready to step; a step() processes
\* one schedule entry and returns Continue exactly if an entry remains after
\* it, Halted otherwise; so the loop over a schedule of n entries ends, in
\* Halted or an error, after at most n calls of step() (one call if n is
\* zero), and the simulation time never decreases
C15_StepsBoundedByEntries ==
  /\ []EngineStepsThroughSchedule
  /\ [][(sim # NoSim /\ sim' # NoSim) => sim'.time >= sim.time]_vars

\* test_add, of three instants, ran to Halted in three calls of step()
C15_Witness ==
  /\ pc = "ret"
  /\ testRet = Unit
  /\ program[i].fam = "add"
  /\ StepCount(i) = 3
  /\ EntryCount(i) = 3

\* the stimulus assignments applied so far in the test in progress, each as
\* <<entry, position>>: those of the entries stepped through and, within a
\* step, those of its entry up to the one applied last
AppliedStimulus ==
  LET within == IF pc \in {"stimulus", "propagate", "assert", "advance"}
                     \/ (pc = "while" /\ ~ret.ok)
                THEN sim.stim - 1 ELSE 0
  IN UNION {{<<e, q>> : q \in {r \in DOMAIN linked.schedule[e].stimulus :
                                 e < sim.entry \/ r <= within}} :
            e \in {d \in DOMAIN linked.schedule : d <= sim.entry}}

\* the signals set by stimulus and driven by no assignment
StimulusDriven ==
  UNION {{linked.schedule[e].stimulus[q].into :
            q \in DOMAIN linked.schedule[e].stimulus} : e \in DOMAIN linked.schedule}
    \ {linked.drivers[n].into : n \in DOMAIN linked.drivers}

\* the bit written by the most recent stimulus assignment to s applied so
\* far, false if there is none
HeldValue(s) ==
  LET to == {p \in AppliedStimulus : linked.schedule[p[1]].stimulus[p[2]].into = s}
  IN IF to = {} THEN Bit(FALSE)
     ELSE LET last == CHOOSE p \in to :
                        \A o \in to : o[1] < p[1] \/ (o[1] = p[1] /\ o[2] <= p[2])
          IN Bit(linked.schedule[last[1]].stimulus[last[2]].expr.c.b)

\* C19: a signal set by stimulus and not driven holds, at every point of
\* the run, the value of the most recent stimulus assignment to it, or
\* false if none has been applied yet: propagation and assertions leave it
\* alone, and a later stimulus overwrites it
C19_StimulusValueIsHeld ==
  (sim # NoSim /\ pc # "panicked") =>
    \A s \in StimulusDriven : sim.values[s] = HeldValue(s)

\* in Scenario A, at the assertion of instant 5, a still has the 1 it was
\* set to at instant 0, b has been overwritten with 0, and c, false until
\* then, is 1
C19_Witness ==
  /\ pc = "assert"
  /\ program[i].fam = "scenario_a"
  /\ sim.entry = 2
  /\ sim.time = 5
  /\ sim.values[[name |-> "a", path |-> << >>]] = Bit(TRUE)
  /\ sim.values[[name |-> "b", path |-> << >>]] = Bit(FALSE)
  /\ sim.values[[name |-> "c", path |-> << >>]] = Bit(TRUE)

\* the assertion outcomes of the test at position t, in order, without the
\* position
OutcomesOf(t) ==
  LET cs == SelectSeq(checks, LAMBDA c : c.test = t)
  IN [n \in DOMAIN cs |-> [at |-> cs[n].at, span |-> cs[n].span,
                           expected |-> cs[n].expected, actual |-> cs[n].actual]]

\* the change events of the test at position t, in order, without the
\* position
ChangesOf(t) ==
  LET cs == SelectSeq(trace, LAMBDA c : c.test = t)
  IN [n \in DOMAIN cs |-> [at |-> cs[n].at, signal |-> cs[n].signal,
                           value |-> cs[n].value]]

\* the run of the test at position t is over
RunIsOver(t) ==
  \E n \in DOMAIN log : log[n].test = t /\ log[n].ev \in {"halted", "error"}

\* the runs compared: no waveform file is written, and every test has one
\* driver per signal, so that what the linker makes of it is known
Comparable ==
  /\ ~config.create_vcd
  /\ \A t \in DOMAIN program : ~MultipleDrivers(BodyOf(t))

\* what holds of a run in every state
RunsAreAlike ==
  /\ pc \in {"idle", "for", "instantiate", "ret", "returned"} =>
       instantiated = NoInst /\ linked = NoNet /\ sim = NoSim
  /\ pc = "link" => instantiated = instantiate_program(TestOf(program[i]))
  /\ Comparable =>
       /\ \A t, u \in DOMAIN program :
            (t < u /\ program[t] = program[u] /\ RunIsOver(u)) =>
              OutcomesOf(t) = OutcomesOf(u) /\ ChangesOf(t) = ChangesOf(u)
       /\ again =>
            /\ IsPrefix(log, first.log)
            /\ IsPrefix(checks, first.checks)
            /\ IsPrefix(trace, first.trace)
            /\ pc = "returned" =>
                 /\ log = first.log
                 /\ checks = first.checks
                 /\ trace = first.trace
                 /\ result = first.result

====
